---- MODULE Spec2Model ----
(***************************************************************************)
(* Model of Xray/detection_chunk.py: the block classifier table, the chunk *)
(* scanner (find_blocks_by_id, find_blocks_in_chunks), the chunk           *)
(* aggregator (count_blocks_in_chunk) and the world analyzer               *)
(* (analyze_world_chunks) running against the external chunk provider.     *)
(*                                                                         *)
(* Python values are modelled as follows.                                  *)
(*   - a block is a record [id, x, y, z];                                  *)
(*   - a dict is the sequence of its items [key, value] in insertion       *)
(*     order (Python dicts keep insertion order, and assigning to an       *)
(*     existing key keeps the key's position);                             *)
(*   - an Optional[str] is <<>> for None and <<s>> for the string s.       *)
(***************************************************************************)
EXTENDS Integers, Sequences, FiniteSets, TLC

VARIABLES
    pc,                 \* position of the running function
    block_id,           \* find_blocks_by_id / find_blocks_in_chunks: target id
    blocks,             \* find_blocks_by_id: the block list searched
    coordinates,        \* find_blocks_by_id: the returned list
    chunk_list,         \* the chunk list being iterated
    results,            \* find_blocks_in_chunks: the returned list
    chunk_blocks,       \* count_blocks_in_chunk: the block list counted
    block_counts,       \* count_blocks_in_chunk: the returned dict
    nFiles,             \* analyze_world_chunks: len(files)
    fileIdx,            \* analyze_world_chunks: files already taken by the outer loop
    chunkIdx,           \* analyze_world_chunks: chunks already taken by the inner loop
    chunk,              \* analyze_world_chunks: the chunk of the current iteration
    block_list,         \* analyze_world_chunks: the decoded blocks of that chunk
    blocks_by_location, \* analyze_world_chunks: the location report
    reportIdx,          \* analyze_world_chunks: report items already printed
    totals,             \* analyze_world_chunks: the summary counters
    output,             \* lines written to the console so far
    observed,           \* blocks of each summary category decoded so far
    nonEmptyChunks,     \* processed chunks whose count mapping was non-empty
    failure             \* the provider call that raised, "none" so far

vars == <<pc, block_id, blocks, coordinates, chunk_list, results, chunk_blocks,
          block_counts, nFiles, fileIdx, chunkIdx, chunk, block_list, blocks_by_location,
          reportIdx, totals, output, observed, nonEmptyChunks, failure>>

scanVars == <<block_id, blocks, coordinates, results>>
countVars == <<chunk_blocks, block_counts>>
runVars == <<nFiles, fileIdx, chunkIdx, chunk, block_list, blocks_by_location, reportIdx,
             totals, output, observed, nonEmptyChunks, failure>>

----------------------------------------------------------------------------
(* Bounds of the model. *)

MaxScanBlocks == 3      \* longest block list given to find_blocks_by_id
MaxScanChunks == 2      \* longest chunk list given to find_blocks_in_chunks
MaxCountBlocks == 3     \* longest block list given to count_blocks_in_chunk
MaxFiles == 2           \* most files the provider returns
MaxChunks == 2          \* most chunks the provider returns for one file
MaxChunkBlocks == 1     \* most blocks the provider decodes for one chunk

(* Value domains the inputs are drawn from. *)
ScanIds == {0, 49, 54}
ScanPositions == {<<0, 0, 0>>, <<1, 2, 3>>, <<4, 5, 6>>}
CountIds == {0, 1, 49, 54, 146, 3886, 100, 9999}
RunIds == {0, 49, 54, 3886}
ChunkScanIds == {0, 54}
ChunkCoords == {<<5, -3>>, <<-1, 2>>}

RECURSIVE SeqsUpTo(_, _)
SeqsUpTo(S, n) ==
    IF n = 0 THEN {<<>>}
    ELSE LET shorter == SeqsUpTo(S, n - 1)
         IN  shorter \cup {Append(s, e) : s \in {t \in shorter : Len(t) = n - 1}, e \in S}

----------------------------------------------------------------------------
(* Python built-ins. *)

None == <<>>
Some(s) == <<s>>

Digits == <<"0", "1", "2", "3", "4", "5", "6", "7", "8", "9">>

RECURSIVE StrNat(_)
StrNat(n) ==
    IF n < 10 THEN Digits[n + 1]
    ELSE StrNat(n \div 10) \o Digits[(n % 10) + 1]

StrDropsZeros(n) == IF n < 0 THEN "-" \o StrNat(-n)
                    ELSE IF n >= 10 /\ n % 10 = 0 THEN StrNat(n \div 10) ELSE StrNat(n)

\* str(int): the decimal string of an integer
str(n) == IF n < 0 THEN "-" \o StrNat(-n) ELSE StrNat(n)

\* key in d
DictHas(d, k) == \E i \in 1..Len(d) : d[i].key = k

\* d[k], for a key of d
DictAt(d, k) == d[CHOOSE i \in 1..Len(d) : d[i].key = k].value

\* d.get(k, default)
DictGet(d, k, default) == IF DictHas(d, k) THEN DictAt(d, k) ELSE default

\* d[k] = v: an existing key keeps its position, a new key goes last
DictSet(d, k, v) ==
    IF DictHas(d, k)
    THEN [i \in 1..Len(d) |-> IF d[i].key = k THEN [key |-> k, value |-> v] ELSE d[i]]
    ELSE Append(d, [key |-> k, value |-> v])

DictKeys(d) == {d[i].key : i \in 1..Len(d)}

----------------------------------------------------------------------------
(* The block classifier table. *)

BLOCK_ID_NAMES ==
    (3658 :> Some("server")) @@ (54 :> Some("chest")) @@ (146 :> Some("chest")) @@
    (3886 :> Some("rf")) @@ (3664 :> Some("electric_meter")) @@ (158 :> Some("dropper")) @@
    (3574 :> Some("switch")) @@ (3575 :> Some("repair_machine")) @@
    (3576 :> Some("ecotron")) @@ (3663 :> Some("electric_collector")) @@
    (3379 :> Some("sealable")) @@ (2845 :> Some("heavy_wire")) @@
    (49 :> Some("obsidian")) @@ (3657 :> Some("petroleum")) @@
    (3383 :> Some("solar_panel")) @@ (212 :> Some("dark_ore")) @@
    (52 :> Some("spawner")) @@ (3572 :> Some("incubator")) @@
    (7 :> Some("bedrock")) @@ (1 :> Some("stone")) @@ (0 :> None)

\* BLOCK_ID_NAMES.get(id)
TableGet(id) == IF id \in DOMAIN BLOCK_ID_NAMES THEN BLOCK_ID_NAMES[id] ELSE None

----------------------------------------------------------------------------
(* Chunk scanner. *)

Block(i, bx, by, bz) == [id |-> i, x |-> bx, y |-> by, z |-> bz]

ScanBlocks == {Block(i, p[1], p[2], p[3]) : i \in ScanIds, p \in ScanPositions}
ScanBlockLists == SeqsUpTo(ScanBlocks, MaxScanBlocks)

FindStepPrepends(coords, id, block) ==
    IF id = block.id
    THEN <<[x |-> block.x, y |-> block.y, z |-> block.z]>> \o coords
    ELSE coords

\* one iteration of the loop of find_blocks_by_id
FindStep(coords, id, block) ==
    IF id = block.id
    THEN Append(coords, [x |-> block.x, y |-> block.y, z |-> block.z])
    ELSE coords

RECURSIVE FindLoop(_, _, _)
FindLoop(coords, id, rest) ==
    IF rest = <<>> THEN coords
    ELSE FindLoop(FindStep(coords, id, Head(rest)), id, Tail(rest))

find_blocks_by_id(id, blockList) == FindLoop(<<>>, id, blockList)

\* chunks.get_chunk_matrice(chunk) of the external provider, for a decoded chunk
get_chunk_matrice(c) == c.blocks

Chunk(cx, cz, blockList) == [x |-> cx, z |-> cz, blocks |-> blockList]

ChunkScanBlockLists == SeqsUpTo({Block(i, 0, 0, 0) : i \in ChunkScanIds}, MaxChunkBlocks)
ScanChunks == {Chunk(c[1], c[2], b) : c \in ChunkCoords, b \in ChunkScanBlockLists}
ScanChunkLists == SeqsUpTo(ScanChunks, MaxScanChunks)

ChunkEntrySkipsZero(res, id, c) ==
    LET coords == find_blocks_by_id(id, get_chunk_matrice(c))
    IN  IF Len(coords) = 0 THEN res
        ELSE Append(res, DictSet(<<>>, <<c.x, c.z>>, Len(coords)))

\* one iteration of the loop of find_blocks_in_chunks
ChunkEntry(res, id, c) ==
    LET coords == find_blocks_by_id(id, get_chunk_matrice(c))
    IN  Append(res, DictSet(<<>>, <<c.x, c.z>>, Len(coords)))

RECURSIVE FindChunksLoop(_, _, _)
FindChunksLoop(res, id, rest) ==
    IF rest = <<>> THEN res
    ELSE FindChunksLoop(ChunkEntry(res, id, Head(rest)), id, Tail(rest))

find_blocks_in_chunks(id, chunks) == FindChunksLoop(<<>>, id, chunks)

----------------------------------------------------------------------------
(* Chunk aggregator. *)

CountBlockLists == SeqsUpTo({Block(i, 0, 0, 0) : i \in CountIds}, MaxCountBlocks)

\* the name a non-skipped block is counted under (lines 97-99)
BlockName(id) ==
    LET block_name == TableGet(id)
    IN  IF block_name = None /\ id # 0 THEN Some(str(id)) ELSE block_name

CountStepCountsAir(counts, block) ==
    LET block_name == IF block.id = 0 THEN Some(str(0)) ELSE BlockName(block.id)
    IN  IF DictHas(counts, block_name)
        THEN DictSet(counts, block_name, DictAt(counts, block_name) + 1)
        ELSE DictSet(counts, block_name, 1)

CountStepNoIncrement(counts, block) ==
    IF block.id = 0 THEN counts
    ELSE DictSet(counts, BlockName(block.id), 1)

\* one iteration of the loop of count_blocks_in_chunk
CountStep(counts, block) ==
    IF block.id = 0 THEN counts
    ELSE LET block_name == BlockName(block.id)
         IN  IF DictHas(counts, block_name)
             THEN DictSet(counts, block_name, DictAt(counts, block_name) + 1)
             ELSE DictSet(counts, block_name, 1)

RECURSIVE CountLoop(_, _)
CountLoop(counts, rest) ==
    IF rest = <<>> THEN counts
    ELSE CountLoop(CountStep(counts, Head(rest)), Tail(rest))

count_blocks_in_chunk(blockList) == CountLoop(<<>>, blockList)

----------------------------------------------------------------------------
(* World analyzer. *)

\* what the provider can answer
ProviderChunkLists == SeqsUpTo({[x |-> c[1], z |-> c[2]] : c \in ChunkCoords}, MaxChunks)
ProviderBlockLists == SeqsUpTo({Block(i, 0, 0, 0) : i \in RunIds}, MaxChunkBlocks)

\* repr() of a dict key
KeyRepr(k) == IF k = None THEN "None" ELSE "'" \o k[1] \o "'"

RECURSIVE ItemsRepr(_)
ItemsRepr(d) ==
    IF d = <<>> THEN ""
    ELSE KeyRepr(d[1].key) \o ": " \o str(d[1].value)
         \o (IF Len(d) > 1 THEN ", " ELSE "") \o ItemsRepr(Tail(d))

\* str() of a dict of counts
DictStr(d) == "{" \o ItemsRepr(d) \o "}"

\* chunk_key = f"x:{chunk.x*16}, z:{chunk.z*16}"
ChunkKey(c) == "x:" \o str(c.x * 16) \o ", z:" \o str(c.z * 16)

StoreLocationAlways(report, c, counts) == DictSet(report, ChunkKey(c), counts)

StoreLocationKeepsFirst(report, c, counts) ==
    IF counts # <<>> /\ ~DictHas(report, ChunkKey(c))
    THEN DictSet(report, ChunkKey(c), counts)
    ELSE report

\* lines 142-144: a non-empty count mapping is stored under the chunk's label
StoreLocation(report, c, counts) ==
    IF counts # <<>> THEN DictSet(report, ChunkKey(c), counts) ELSE report

\* lines 151-153: one report item folded into the totals
FoldTotals(t, block_data) ==
    [chest    |-> t.chest + DictGet(block_data, Some("chest"), 0),
     obsidian |-> t.obsidian + DictGet(block_data, Some("obsidian"), 0),
     rf       |-> t.rf + DictGet(block_data, Some("rf"), 0)]

CountOfIds(blockList, ids) == Cardinality({i \in 1..Len(blockList) : blockList[i].id \in ids})

\* the blocks of each summary category among the blocks decoded so far
Observe(o, blockList) ==
    [chest    |-> o.chest + CountOfIds(blockList, {54, 146}),
     obsidian |-> o.obsidian + CountOfIds(blockList, {49}),
     rf       |-> o.rf + CountOfIds(blockList, {3886})]

Line(statement, s) == [stmt |-> statement, text |-> s]

CaughtAndReported(site) == "report"

\* no provider call is inside a try: the exception leaves analyze_world_chunks
Uncaught(site) == "crashed"

----------------------------------------------------------------------------
(* Initial state shared by the specifications. *)

InitScan ==
    /\ block_id = 0
    /\ blocks = <<>>
    /\ coordinates = <<>>
    /\ results = <<>>

InitCount ==
    /\ chunk_blocks = <<>>
    /\ block_counts = <<>>

InitRun ==
    /\ nFiles = 0
    /\ fileIdx = 0
    /\ chunkIdx = 0
    /\ chunk = [x |-> 0, z |-> 0]
    /\ block_list = <<>>
    /\ blocks_by_location = <<>>
    /\ reportIdx = 0
    /\ totals = [chest |-> 0, obsidian |-> 0, rf |-> 0]
    /\ output = <<>>
    /\ observed = [chest |-> 0, obsidian |-> 0, rf |-> 0]
    /\ nonEmptyChunks = 0
    /\ failure = "none"

Init ==
    /\ pc = "start"
    /\ InitScan
    /\ InitCount
    /\ chunk_list = <<>>
    /\ InitRun

----------------------------------------------------------------------------
(* The chunk scanner called on every input of the domain. *)

CallFindBlocksById ==
    /\ pc = "start"
    /\ \E id \in ScanIds, blockList \in ScanBlockLists :
         /\ block_id' = id
         /\ blocks' = blockList
         /\ coordinates' = find_blocks_by_id(id, blockList)
    /\ pc' = "find_blocks_by_id_returned"
    /\ UNCHANGED <<chunk_list, results, countVars, runVars>>

CallFindBlocksInChunks ==
    /\ pc = "start"
    /\ \E id \in ChunkScanIds, chunks \in ScanChunkLists :
         /\ block_id' = id
         /\ chunk_list' = chunks
         /\ results' = find_blocks_in_chunks(id, chunks)
    /\ pc' = "find_blocks_in_chunks_returned"
    /\ UNCHANGED <<blocks, coordinates, countVars, runVars>>

NextScan == CallFindBlocksById \/ CallFindBlocksInChunks

SpecScan == Init /\ [][NextScan]_vars

----------------------------------------------------------------------------
(* The chunk aggregator called on every input of the domain. *)

CallCountBlocksInChunk ==
    /\ pc = "start"
    /\ \E blockList \in CountBlockLists :
         /\ chunk_blocks' = blockList
         /\ block_counts' = count_blocks_in_chunk(blockList)
    /\ pc' = "count_blocks_in_chunk_returned"
    /\ UNCHANGED <<scanVars, chunk_list, runVars>>

NextCount == CallCountBlocksInChunk

SpecCount == Init /\ [][NextCount]_vars

----------------------------------------------------------------------------
(* analyze_world_chunks against a provider that may fail on any call. *)

\* line 120
GetMcaFiles ==
    /\ pc = "start"
    /\ \E n \in 0..MaxFiles : nFiles' = n
    /\ pc' = "files_loop"
    /\ UNCHANGED <<scanVars, countVars, chunk_list, fileIdx, chunkIdx, chunk,
                   block_list, blocks_by_location, reportIdx, totals, output, observed,
                   nonEmptyChunks, failure>>

GetMcaFilesFails ==
    /\ pc = "start"
    /\ failure' = "get_mca_files"
    /\ pc' = Uncaught("get_mca_files")
    /\ UNCHANGED <<scanVars, countVars, chunk_list, nFiles, fileIdx, chunkIdx, chunk,
                   block_list, blocks_by_location, reportIdx, totals, output, observed,
                   nonEmptyChunks>>

\* lines 131-132
GetListOfChunks ==
    /\ pc = "files_loop"
    /\ fileIdx < nFiles
    /\ \E chunks \in ProviderChunkLists : chunk_list' = chunks
    /\ fileIdx' = fileIdx + 1
    /\ chunkIdx' = 0
    /\ pc' = "chunks_loop"
    /\ UNCHANGED <<scanVars, countVars, nFiles, chunk, block_list, blocks_by_location, reportIdx,
                   totals, output, observed, nonEmptyChunks, failure>>

GetListOfChunksFails ==
    /\ pc = "files_loop"
    /\ fileIdx < nFiles
    /\ failure' = "get_list_of_chunks_by_mca"
    /\ pc' = Uncaught("get_list_of_chunks_by_mca")
    /\ UNCHANGED <<scanVars, countVars, chunk_list, nFiles, fileIdx, chunkIdx, chunk,
                   block_list, blocks_by_location, reportIdx, totals, output, observed,
                   nonEmptyChunks>>

\* lines 134-144, for the block list the provider decodes
ProcessChunkOn(decoded) ==
    /\ pc = "chunks_loop"
    /\ chunkIdx < Len(chunk_list)
    /\ LET c == chunk_list[chunkIdx + 1]
           counts == count_blocks_in_chunk(decoded)
       IN  /\ chunk' = c
           /\ block_list' = decoded
           /\ block_counts' = counts
           /\ blocks_by_location' = StoreLocation(blocks_by_location, c, counts)
    /\ chunkIdx' = chunkIdx + 1
    /\ UNCHANGED <<pc, scanVars, chunk_blocks, chunk_list, nFiles, fileIdx, reportIdx,
                   totals, output, failure>>

ProcessChunk ==
    /\ \E decoded \in ProviderBlockLists : ProcessChunkOn(decoded)
    /\ UNCHANGED <<observed, nonEmptyChunks>>

\* the same step, with the record of what the provider decoded
ProcessChunkObserved ==
    \E decoded \in ProviderBlockLists :
        /\ ProcessChunkOn(decoded)
        /\ observed' = Observe(observed, decoded)
        /\ nonEmptyChunks' = nonEmptyChunks + (IF \A i \in 1..Len(decoded) : decoded[i].id = 0
                                               THEN 0 ELSE 1)

GetChunkMatriceFails ==
    /\ pc = "chunks_loop"
    /\ chunkIdx < Len(chunk_list)
    /\ failure' = "get_chunk_matrice"
    /\ pc' = Uncaught("get_chunk_matrice")
    /\ UNCHANGED <<scanVars, countVars, chunk_list, nFiles, fileIdx, chunkIdx, chunk,
                   block_list, blocks_by_location, reportIdx, totals, output, observed,
                   nonEmptyChunks>>

\* the inner loop is exhausted
EndOfChunks ==
    /\ pc = "chunks_loop"
    /\ chunkIdx = Len(chunk_list)
    /\ pc' = "files_loop"
    /\ UNCHANGED <<scanVars, countVars, chunk_list, runVars>>

\* the outer loop is exhausted
EndOfFiles ==
    /\ pc = "files_loop"
    /\ fileIdx = nFiles
    /\ pc' = "report"
    /\ UNCHANGED <<scanVars, countVars, chunk_list, runVars>>

\* lines 147-153
PrintLocation ==
    /\ pc = "report"
    /\ reportIdx < Len(blocks_by_location)
    /\ LET item == blocks_by_location[reportIdx + 1]
       IN  /\ output' = Append(output,
                               Line("location", item.key \o ": " \o DictStr(item.value)))
           /\ totals' = FoldTotals(totals, item.value)
    /\ reportIdx' = reportIdx + 1
    /\ UNCHANGED <<pc, scanVars, countVars, chunk_list, nFiles, fileIdx, chunkIdx, chunk,
                   block_list, blocks_by_location, observed, nonEmptyChunks, failure>>

\* line 156
PrintTotalChests ==
    /\ pc = "report"
    /\ reportIdx = Len(blocks_by_location)
    /\ output' = Append(output, Line("chests", "Total chests: " \o str(totals.chest)))
    /\ pc' = "total_obsidian"
    /\ UNCHANGED <<scanVars, countVars, chunk_list, nFiles, fileIdx, chunkIdx, chunk,
                   block_list, blocks_by_location, reportIdx, totals, observed, nonEmptyChunks,
                   failure>>

\* line 157
PrintTotalObsidian ==
    /\ pc = "total_obsidian"
    /\ output' = Append(output, Line("obsidian", "Total obsidian: " \o str(totals.obsidian)))
    /\ pc' = "total_rf"
    /\ UNCHANGED <<scanVars, countVars, chunk_list, nFiles, fileIdx, chunkIdx, chunk,
                   block_list, blocks_by_location, reportIdx, totals, observed, nonEmptyChunks,
                   failure>>

\* line 158
PrintTotalRF ==
    /\ pc = "total_rf"
    /\ output' = Append(output, Line("rf", "Total RF blocks: " \o str(totals.rf)))
    /\ pc' = "done"
    /\ UNCHANGED <<scanVars, countVars, chunk_list, nFiles, fileIdx, chunkIdx, chunk,
                   block_list, blocks_by_location, reportIdx, totals, observed, nonEmptyChunks,
                   failure>>

RunOther ==
    \/ GetMcaFiles
    \/ GetMcaFilesFails
    \/ GetListOfChunks
    \/ GetListOfChunksFails
    \/ GetChunkMatriceFails
    \/ EndOfChunks
    \/ EndOfFiles
    \/ PrintLocation
    \/ PrintTotalChests
    \/ PrintTotalObsidian
    \/ PrintTotalRF

NextRun == ProcessChunk \/ RunOther

SpecRun == Init /\ [][NextRun]_vars

NextRunObserved == ProcessChunkObserved \/ RunOther

SpecRunObserved == Init /\ [][NextRunObserved]_vars

----------------------------------------------------------------------------
(* Reference definitions the properties are stated with.  They are written *)
(* from the meaning of the claims, not from the loops above.               *)

MatchingIdx(id, blockList) == {i \in 1..Len(blockList) : blockList[i].id = id}

\* the index of the k-th block of blockList whose id is id
NthMatch(id, blockList, k) ==
    CHOOSE i \in MatchingIdx(id, blockList) :
        Cardinality({j \in MatchingIdx(id, blockList) : j <= i}) = k

NonAirIdx(blockList) == {i \in 1..Len(blockList) : blockList[i].id # 0}

IdsOf(blockList) == {blockList[i].id : i \in 1..Len(blockList)}

RECURSIVE SumValues(_)
SumValues(d) == IF d = <<>> THEN 0 ELSE d[1].value + SumValues(Tail(d))

\* the names of the ids of CountIds, read off the table and written out in decimal
ExpectedName ==
    (1 :> "stone") @@ (49 :> "obsidian") @@ (54 :> "chest") @@ (146 :> "chest") @@
    (3886 :> "rf") @@ (100 :> "100") @@ (9999 :> "9999")

\* the decimal strings of the ids of CountIds the table does not hold
DecimalString == (100 :> "100") @@ (9999 :> "9999")

\* the labels of the chunk coordinates of ChunkCoords
ExpectedLabel == (<<5, -3>> :> "x:80, z:-48") @@ (<<-1, 2>> :> "x:-16, z:32")

AllAir(blockList) == \A i \in 1..Len(blockList) : blockList[i].id = 0

----------------------------------------------------------------------------
(* Properties of the chunk scanner. *)

\* C5: find_blocks_by_id returns as many records as blocks has elements whose id
\* is the target, the k-th record carrying the (x, y, z) of the k-th matching
\* block in input order, and the empty list when blocks is empty or nothing matches.
C5_FindBlocksById ==
    pc = "find_blocks_by_id_returned" =>
        /\ Len(coordinates) = Cardinality(MatchingIdx(block_id, blocks))
        /\ \A k \in 1..Len(coordinates) :
             LET b == blocks[NthMatch(block_id, blocks, k)]
             IN  coordinates[k] = [x |-> b.x, y |-> b.y, z |-> b.z]
        /\ (blocks = <<>> \/ MatchingIdx(block_id, blocks) = {}) => coordinates = <<>>

\* two matches out of order of their coordinates, a duplicate and a non-match between
C5_Witness ==
    /\ pc = "find_blocks_by_id_returned"
    /\ block_id = 54
    /\ blocks = <<Block(54, 4, 5, 6), Block(49, 0, 0, 0), Block(54, 1, 2, 3)>>
    /\ coordinates = <<[x |-> 4, y |-> 5, z |-> 6], [x |-> 1, y |-> 2, z |-> 3]>>

\* C6: find_blocks_in_chunks returns one entry per input chunk, in input order, the
\* i-th mapping the i-th chunk's (x, z) to the number of its blocks whose id is the
\* target; zero matches give an entry with count 0 and equal (x, z) give two entries.
C6_FindBlocksInChunks ==
    pc = "find_blocks_in_chunks_returned" =>
        /\ Len(results) = Len(chunk_list)
        /\ \A i \in 1..Len(results) :
             results[i] = <<[key   |-> <<chunk_list[i].x, chunk_list[i].z>>,
                             value |-> Cardinality(MatchingIdx(block_id,
                                                               chunk_list[i].blocks))]>>

\* two chunks of the same (x, z), the first without a match
C6_Witness ==
    /\ pc = "find_blocks_in_chunks_returned"
    /\ block_id = 54
    /\ Len(chunk_list) = 2
    /\ chunk_list[1].x = chunk_list[2].x
    /\ chunk_list[1].z = chunk_list[2].z
    /\ MatchingIdx(54, chunk_list[1].blocks) = {}
    /\ MatchingIdx(54, chunk_list[2].blocks) # {}
    /\ Len(results) = 2
    /\ results[1][1].value = 0

----------------------------------------------------------------------------
(* Properties of the chunk aggregator. *)

\* C2, as claimed: for a block list without air holding N blocks of K distinct ids,
\* count_blocks_in_chunk returns exactly K entries whose values sum to N.
C2_Original ==
    (pc = "count_blocks_in_chunk_returned" /\ 0 \notin IdsOf(chunk_blocks)) =>
        /\ Len(block_counts) = Cardinality(IdsOf(chunk_blocks))
        /\ SumValues(block_counts) = Len(chunk_blocks)

\* C2, amended: for a block list without air holding N blocks of K distinct ids,
\* count_blocks_in_chunk returns K entries, or K - 1 entries when the list holds
\* both chest ids 54 and 146 (one name), and the values sum to N.
C2_CountPerName ==
    (pc = "count_blocks_in_chunk_returned" /\ 0 \notin IdsOf(chunk_blocks)) =>
        /\ Len(block_counts) = Cardinality(IdsOf(chunk_blocks))
                               - (IF {54, 146} \subseteq IdsOf(chunk_blocks) THEN 1 ELSE 0)
        /\ Cardinality(DictKeys(block_counts)) = Len(block_counts)
        /\ SumValues(block_counts) = Len(chunk_blocks)

\* both chest ids and a repeated id, without air
C2_Witness ==
    /\ pc = "count_blocks_in_chunk_returned"
    /\ chunk_blocks = <<Block(54, 0, 0, 0), Block(146, 0, 0, 0), Block(54, 0, 0, 0)>>
    /\ block_counts = <<[key |-> Some("chest"), value |-> 3]>>

\* C3: every key of the result of count_blocks_in_chunk is the name of a non-air
\* block of the list, its count is at least 1 and is the number of non-air blocks
\* of that name; air is no key (neither None nor "0") and adds to no count.
C3_CountsExact ==
    pc = "count_blocks_in_chunk_returned" =>
        /\ \A i \in 1..Len(block_counts) :
             LET named == {j \in NonAirIdx(chunk_blocks) :
                             Some(ExpectedName[chunk_blocks[j].id]) = block_counts[i].key}
             IN  /\ named # {}
                 /\ block_counts[i].value >= 1
                 /\ block_counts[i].value = Cardinality(named)
        /\ None \notin DictKeys(block_counts)
        /\ Some("0") \notin DictKeys(block_counts)
        /\ SumValues(block_counts) = Cardinality(NonAirIdx(chunk_blocks))

\* air between two blocks of one name
C3_Witness ==
    /\ pc = "count_blocks_in_chunk_returned"
    /\ chunk_blocks = <<Block(49, 0, 0, 0), Block(0, 0, 0, 0), Block(49, 0, 0, 0)>>
    /\ block_counts = <<[key |-> Some("obsidian"), value |-> 2]>>

\* C4: a counted block whose id the table holds is counted under the table's value
\* for it, and one whose id the table does not hold under the decimal string of the
\* id; a single block of id 9999 gives {"9999": 1}.
C4_Classification ==
    pc = "count_blocks_in_chunk_returned" =>
        /\ \A i \in NonAirIdx(chunk_blocks) :
             LET id == chunk_blocks[i].id
             IN  IF id \in DOMAIN BLOCK_ID_NAMES
                 THEN DictHas(block_counts, BLOCK_ID_NAMES[id])
                 ELSE DictHas(block_counts, Some(DecimalString[id]))
        /\ DictKeys(block_counts) =
               {BLOCK_ID_NAMES[id] : id \in (IdsOf(chunk_blocks) \ {0}) \cap DOMAIN BLOCK_ID_NAMES}
               \cup {Some(DecimalString[id]) : id \in IdsOf(chunk_blocks) \ DOMAIN BLOCK_ID_NAMES}
        /\ chunk_blocks = <<Block(9999, 0, 0, 0)>> =>
               block_counts = <<[key |-> Some("9999"), value |-> 1]>>

\* an id of the table next to two ids the table does not hold
C4_Witness ==
    /\ pc = "count_blocks_in_chunk_returned"
    /\ chunk_blocks = <<Block(9999, 0, 0, 0), Block(3886, 0, 0, 0), Block(100, 0, 0, 0)>>
    /\ block_counts = <<[key |-> Some("9999"), value |-> 1],
                        [key |-> Some("rf"), value |-> 1],
                        [key |-> Some("100"), value |-> 1]>>

----------------------------------------------------------------------------
(* Properties of the world analyzer. *)

LabelOf(c) == ExpectedLabel[<<c.x, c.z>>]

\* the step of the inner loop that has processed one more chunk
ChunkProcessed == chunkIdx' = chunkIdx + 1

\* C1, as claimed: when the run completes, each of the three totals is non-negative
\* and is the number of blocks of its category decoded from all chunks of all files.
C1_TotalsExact ==
    pc = "done" =>
        /\ totals.chest >= 0 /\ totals.obsidian >= 0 /\ totals.rf >= 0
        /\ totals = observed

\* C7: a chunk of no block or of air only adds no entry to the location report; an
\* entry is only ever written by processing a chunk with a non-empty count mapping,
\* under that chunk's label "x:<x*16>, z:<z*16>" and with that chunk's mapping.
C7_ReportEntries ==
    /\ [](\A i \in 1..Len(blocks_by_location) :
            /\ blocks_by_location[i].value # <<>>
            /\ blocks_by_location[i].key \in {ExpectedLabel[c] : c \in ChunkCoords})
    /\ [][IF ChunkProcessed /\ ~AllAir(block_list')
          THEN /\ chunk' = chunk_list[chunkIdx']
               /\ DictHas(blocks_by_location', LabelOf(chunk'))
               /\ DictAt(blocks_by_location', LabelOf(chunk')) = count_blocks_in_chunk(block_list')
               /\ \A k \in DictKeys(blocks_by_location') \ {LabelOf(chunk')} :
                    /\ DictHas(blocks_by_location, k)
                    /\ DictAt(blocks_by_location', k) = DictAt(blocks_by_location, k)
          ELSE blocks_by_location' = blocks_by_location]_vars

\* the second chunk of a file held air only and left the report with the first one's entry
C7_Witness ==
    /\ pc = "chunks_loop"
    /\ chunkIdx = 2
    /\ block_list # <<>>
    /\ AllAir(block_list)
    /\ LabelOf(chunk_list[1]) # LabelOf(chunk_list[2])
    /\ Len(blocks_by_location) = 1
    /\ blocks_by_location[1].key = LabelOf(chunk_list[1])

\* C8, as claimed: nothing is printed before every chunk of every file is processed,
\* and a completed run has printed one location line per non-empty chunk processed,
\* then the three lines Total chests, Total obsidian, Total RF blocks, in that order.
C8_OutputShape ==
    /\ pc \in {"start", "files_loop", "chunks_loop"} => output = <<>>
    /\ pc = "done" =>
         /\ Len(output) = nonEmptyChunks + 3
         /\ \A i \in 1..nonEmptyChunks : output[i].stmt = "location"
         /\ output[nonEmptyChunks + 1].stmt = "chests"
         /\ output[nonEmptyChunks + 2].stmt = "obsidian"
         /\ output[nonEmptyChunks + 3].stmt = "rf"

\* C9: once a provider call has failed the run is over: the failing step changes
\* nothing but the position, no step follows it (no later file or chunk, no retry),
\* and nothing has been printed, whatever was processed before.
C9_FailurePropagates ==
    /\ [](failure # "none" => (pc = "crashed" /\ output = <<>>))
    /\ [][/\ failure = "none"
          /\ failure' # "none" =>
                UNCHANGED <<chunk_list, nFiles, fileIdx, chunkIdx, chunk, block_list,
                            block_counts, blocks_by_location, reportIdx, totals, output>>]_vars

\* decoding fails after a chunk has been reported into the location report
C9_Witness ==
    /\ failure = "get_chunk_matrice"
    /\ chunkIdx = 1
    /\ blocks_by_location # <<>>
    /\ output = <<>>

\* C10: when a processed chunk with a non-empty count mapping has a label the report
\* already holds, the report keeps one entry for the label, at the position it had,
\* now holding this chunk's mapping; the other entries stay and nothing fails.
C10_LastWriteWins ==
    /\ [](Cardinality(DictKeys(blocks_by_location)) = Len(blocks_by_location))
    /\ [][(/\ ChunkProcessed
           /\ ~AllAir(block_list')
           /\ DictHas(blocks_by_location, LabelOf(chunk')))
          => /\ Len(blocks_by_location') = Len(blocks_by_location)
             /\ \A i \in 1..Len(blocks_by_location) :
                  /\ blocks_by_location'[i].key = blocks_by_location[i].key
                  /\ blocks_by_location'[i].value =
                        IF blocks_by_location[i].key = LabelOf(chunk')
                        THEN count_blocks_in_chunk(block_list')
                        ELSE blocks_by_location[i].value
             /\ failure' = "none"
             /\ pc' = "chunks_loop"]_vars

\* the first chunk of the second file has the label of the report's first entry,
\* written before the second entry, and the first entry now holds its mapping
C10_Witness ==
    /\ pc = "chunks_loop"
    /\ fileIdx = 2
    /\ chunkIdx = 1
    /\ block_counts # <<>>
    /\ Len(blocks_by_location) = 2
    /\ blocks_by_location[1].key = LabelOf(chunk)
    /\ blocks_by_location[1].value = block_counts
    /\ blocks_by_location[2].value # block_counts

====
